---- MODULE Spec2Model ----
(***************************************************************************)
(* Model of the NYC taxi congestion-audit pipeline: pipeline.py (main),    *)
(* phase1_pipeline.py (DuckDBPipeline), phase2_analysis.py                 *)
(* (AnalysisPipeline), phase2_impact.py (ImpactAnalysis),                  *)
(* phase3_visuals.py (VisualAudit), phase4_rain.py (RainTaxAnalysis) and   *)
(* phase4_report.py (ReportGenerator).                                     *)
(*                                                                         *)
(* SQL values are modelled with SQL's semantics: a nullable column value   *)
(* is the empty set (NULL) or a singleton {v}; a SQL condition is          *)
(* three-valued ("true", "false", "null"); a WHERE clause and a CASE WHEN  *)
(* branch keep a row only when the condition is "true".                    *)
(* Doubles are modelled as exact rationals [n, d] with d > 0.              *)
(***************************************************************************)
EXTENDS Integers, Sequences, FiniteSets, TLC

(***************************************************************************)
(* Bounds of the model                                                     *)
(***************************************************************************)
\* rows per raw 2025 batch
MaxRows == 1
\* runs of the CLI over the same raw directory (SpecRerun)
MaxRuns == 2

(***************************************************************************)
(* State                                                                   *)
(***************************************************************************)
VARIABLES
    raw_data,       \* raw_data/: file name -> [cols, rows]
    clean_data,     \* processed_data/clean_data/: file name -> rows
    audit_log,      \* processed_data/audit_log/: file name -> rows
    results,        \* results/ and the report: artifact name -> [run, rows]
    pc,             \* the step main() is at
    files,          \* DuckDBPipeline.run: the sorted glob of 2025 batches
    idx,            \* DuckDBPipeline.run: position of the for loop in files
    run,            \* number of the CLI run
    fault,          \* the step whose output the environment refuses to persist
    failed,         \* history: the steps of this run that raised, in order
    banner,         \* 'PIPELINE COMPLETE SUCCESS' was printed by this run
    exit_status,    \* NULL while running, then the status of the process
    log,            \* history: the stage events of this run, in order
    imputed_log,    \* history: the imputed batch written by each run
    wr,             \* to_csv: NULL, or the file it has open and the lines to come
    observed,       \* history: the file contents a consumer's read_csv was given
    outputs_log     \* history: clean_data and audit_log as each run of phase 1 left them

vars == << raw_data, clean_data, audit_log, results, pc, files, idx, run, fault,
           failed, banner, exit_status, log, imputed_log, wr, observed, outputs_log >>

\* the state of a table that is being written, and of the one reading it
io == << wr, observed >>

(***************************************************************************)
(* SQL values                                                              *)
(***************************************************************************)
NULL == {}
Some(v) == {v}
IsNull(x) == x = {}
Val(x) == CHOOSE v \in x : TRUE

T3 == "true"
F3 == "false"
U3 == "null"

And3(a, b) ==
    IF a = F3 \/ b = F3 THEN F3
    ELSE IF a = U3 \/ b = U3 THEN U3
    ELSE T3

Or3(a, b) ==
    IF a = T3 \/ b = T3 THEN T3
    ELSE IF a = U3 \/ b = U3 THEN U3
    ELSE F3

Not3(a) == IF a = U3 THEN U3 ELSE IF a = T3 THEN F3 ELSE T3

Bool3(b) == IF b THEN T3 ELSE F3

\* rationals: [n, d] with d > 0
Rat(n, d) == IF d < 0 THEN [n |-> 0 - n, d |-> 0 - d] ELSE [n |-> n, d |-> d]
RatInt(k) == [n |-> k, d |-> 1]
RatLt(a, b) == a.n * b.d < b.n * a.d
RatEq(a, b) == a.n * b.d = b.n * a.d
\* a / b for b # 0
RatDiv(a, b) == Rat(a.n * b.d, a.d * b.n)

\* SQL comparisons of nullable rationals
SqlGt(x, y) == IF IsNull(x) \/ IsNull(y) THEN U3 ELSE Bool3(RatLt(Val(y), Val(x)))
SqlLt(x, y) == IF IsNull(x) \/ IsNull(y) THEN U3 ELSE Bool3(RatLt(Val(x), Val(y)))
SqlEq(x, y) == IF IsNull(x) \/ IsNull(y) THEN U3 ELSE Bool3(RatEq(Val(x), Val(y)))
\* a nullable integer column as a nullable rational
Num(x) == IF IsNull(x) THEN NULL ELSE Some(RatInt(Val(x)))
Lit(k) == Some(RatInt(k))
\* SQL division; a zero divisor never faults in DuckDB (the result is NULL or
\* an infinity, according to the engine's settings): both are modelled as NULL
\* and no guarded query of the pipeline reaches the case
SqlDiv(x, y) ==
    IF IsNull(x) \/ IsNull(y) THEN NULL
    ELSE IF Val(y).n = 0 THEN NULL
    ELSE Some(RatDiv(Val(x), Val(y)))

(***************************************************************************)
(* Timestamps: [y, mo, s], s the seconds since the start of the month.     *)
(* date_part('epoch', t) on a calendar of 31-day months, counted from the   *)
(* year 2000 (the queries only subtract epochs).                           *)
(***************************************************************************)
SecondsPerMonth == 31 * 86400
Ts(y, mo, s) == [y |-> y, mo |-> mo, s |-> s]
epoch(t) == (((t.y - 2000) * 12 + (t.mo - 1)) * SecondsPerMonth) + t.s
date_part_epoch(t) == IF IsNull(t) THEN NULL ELSE Some(epoch(Val(t)))
\* t + INTERVAL k YEAR
plus_years(t, k) == IF IsNull(t) THEN NULL ELSE Some([Val(t) EXCEPT !.y = @ + k])

(***************************************************************************)
(* File names of raw_data, in the order sorted() gives them                *)
(***************************************************************************)
NameTable == <<
    [name |-> "fhv_tripdata_2025-01.parquet",    prefix |-> "fhv",    y |-> 2025, m |-> 1],
    [name |-> "green_tripdata_2023-12.parquet",  prefix |-> "green",  y |-> 2023, m |-> 12],
    [name |-> "green_tripdata_2024-01.parquet",  prefix |-> "green",  y |-> 2024, m |-> 1],
    [name |-> "green_tripdata_2024-02.parquet",  prefix |-> "green",  y |-> 2024, m |-> 2],
    [name |-> "green_tripdata_2024-03.parquet",  prefix |-> "green",  y |-> 2024, m |-> 3],
    [name |-> "green_tripdata_2024-12.parquet",  prefix |-> "green",  y |-> 2024, m |-> 12],
    [name |-> "green_tripdata_2025-01.parquet",  prefix |-> "green",  y |-> 2025, m |-> 1],
    [name |-> "yellow_tripdata_2023-12.parquet", prefix |-> "yellow", y |-> 2023, m |-> 12],
    [name |-> "yellow_tripdata_2024-01.parquet", prefix |-> "yellow", y |-> 2024, m |-> 1],
    [name |-> "yellow_tripdata_2024-02.parquet", prefix |-> "yellow", y |-> 2024, m |-> 2],
    [name |-> "yellow_tripdata_2024-03.parquet", prefix |-> "yellow", y |-> 2024, m |-> 3],
    [name |-> "yellow_tripdata_2024-12.parquet", prefix |-> "yellow", y |-> 2024, m |-> 12],
    [name |-> "yellow_tripdata_2025-02.parquet", prefix |-> "yellow", y |-> 2025, m |-> 2],
    [name |-> "yellow_tripdata_2025-12.parquet", prefix |-> "yellow", y |-> 2025, m |-> 12] >>

RawNames == { NameTable[i].name : i \in DOMAIN NameTable }
Info(f) == CHOOSE e \in { NameTable[i] : i \in DOMAIN NameTable } : e.name = f
NameOf(e) == e.name

(***************************************************************************)
(* phase1_pipeline.py: the query of process_batch                          *)
(***************************************************************************)
\* the literals of the flagged CTE
PhysicsSpeedLimit == 65
PhysicsMinDistance == 1
TeleporterMinFare == 20
TeleporterMinutes == 60

\* "yellow" in filename: tpep columns, else the lpep columns
taxi_type_of(filename) == IF Info(filename).prefix = "yellow" THEN "yellow" ELSE "green"
pickup_col(taxi_type) == IF taxi_type = "yellow" THEN "tpep" ELSE "lpep"

\* CTE raw_data: the canonical record of a raw row
raw_data_cte(row, taxi_type) ==
    [ pickup_time          |-> row.pickup_datetime,
      dropoff_time         |-> row.dropoff_datetime,
      pickup_loc           |-> row.PULocationID,
      dropoff_loc          |-> row.DOLocationID,
      trip_distance        |-> row.trip_distance,
      fare                 |-> row.fare_amount,
      total_amount         |-> row.total_amount,
      congestion_surcharge |-> row.congestion_surcharge,
      taxi_type            |-> taxi_type ]

\* date_part('epoch', dropoff_time) - date_part('epoch', pickup_time), in seconds
duration_secs(c) ==
    IF IsNull(c.pickup_time) \/ IsNull(c.dropoff_time) THEN NULL
    ELSE Some(epoch(Val(c.dropoff_time)) - epoch(Val(c.pickup_time)))

\* CTE metrics: (...) / 3600.0 AS duration_hrs
duration_hrs(c) ==
    IF IsNull(duration_secs(c)) THEN NULL ELSE Some(Rat(Val(duration_secs(c)), 3600))

\* CTE calc: CASE WHEN duration_hrs > 0 THEN trip_distance / duration_hrs ELSE 0 END
speed_mph(c) ==
    IF SqlGt(duration_hrs(c), Lit(0)) = T3
    THEN SqlDiv(Num(c.trip_distance), duration_hrs(c))
    ELSE Lit(0)

\* CTE flagged
is_physics_fail(c) ==
    And3(SqlGt(speed_mph(c), Lit(PhysicsSpeedLimit)),
         SqlGt(Num(c.trip_distance), Lit(PhysicsMinDistance)))

is_teleporter(c) ==
    And3(SqlLt(duration_hrs(c), Some(Rat(1, TeleporterMinutes))),
         SqlGt(Num(c.fare), Lit(TeleporterMinFare)))

is_stationary(c) ==
    And3(SqlEq(Num(c.trip_distance), Lit(0)), SqlGt(Num(c.fare), Lit(0)))

any_flag(c) == Or3(Or3(is_physics_fail(c), is_teleporter(c)), is_stationary(c))

\* WHERE NOT (is_physics_fail OR is_teleporter OR is_stationary)
clean_logic(c) == Not3(any_flag(c))
\* WHERE (is_physics_fail OR is_teleporter OR is_stationary)
audit_logic(c) == any_flag(c)

\* the rows a SELECT ... WHERE cond keeps, in input order
Where(rows, cond(_)) == SelectSeq(rows, LAMBDA c : cond(c) = T3)

MapSeq(s, f(_)) == [i \in DOMAIN s |-> f(s[i])]

\* the canonical rows of a batch
batch_rows(file, filename) ==
    MapSeq(file.rows, LAMBDA row : raw_data_cte(row, taxi_type_of(filename)))

\* the clean COPY skipped for a batch that an earlier run has processed
clean_rows_OncePerBatch(file, filename) ==
    IF run = 1 THEN Where(batch_rows(file, filename), clean_logic) ELSE << >>

\* the two COPY statements of process_batch
clean_rows(file, filename) ==
    LET rows == batch_rows(file, filename) IN Where(rows, clean_logic)

audit_rows(file, filename) ==
    LET rows == batch_rows(file, filename) IN Where(rows, audit_logic)

\* read_parquet binds the dialect's timestamp columns: a file without them
\* (or an unreadable file) makes the query raise
batch_readable(file, filename) == file.cols = pickup_col(taxi_type_of(filename))

(***************************************************************************)
(* phase1_pipeline.py: impute_december                                     *)
(***************************************************************************)
ImputedFile == "imputed_dec_2025.parquet"

\* the files of raw_data matching *_tripdata_<y>-<m>.parquet, sorted
Glob(raw, y, m) ==
    SelectSeq(MapSeq(NameTable, NameOf),
              LAMBDA f : f \in DOMAIN raw /\ Info(f).y = y /\ Info(f).m = m)

RECURSIVE ConcatRows(_, _)
\* the rows of the files `names` of directory `dir`, file after file
ConcatRows(dir, names) ==
    IF names = << >> THEN << >>
    ELSE dir[Head(names)] \o ConcatRows(dir, Tail(names))

\* one SELECT of impute_sql over the files of a period: the columns of the
\* UNION ALL branch, timestamps moved `years` forward
impute_select(row, filename, years) ==
    [ pickup_time          |-> plus_years(row.pickup_datetime, years),
      dropoff_time         |-> plus_years(row.dropoff_datetime, years),
      pickup_loc           |-> row.PULocationID,
      dropoff_loc          |-> row.DOLocationID,
      trip_distance        |-> row.trip_distance,
      fare                 |-> row.fare_amount,
      total_amount         |-> row.total_amount,
      congestion_surcharge |-> row.congestion_surcharge,
      taxi_type            |-> IF Info(filename).prefix = "yellow" THEN "yellow" ELSE "green" ]

\* read_parquet(glob, union_by_name=True, filename=True): projected rows of a period
period_rows(raw, y, m, years) ==
    LET names == Glob(raw, y, m)
        proj == [f \in DOMAIN raw |->
                    MapSeq(raw[f].rows, LAMBDA row : impute_select(row, f, years))]
    IN  ConcatRows(proj, names)

\* the query binds when the glob matches a file, every file is readable and the
\* united schema has both the tpep and the lpep timestamp columns of COALESCE
period_binds(raw, y, m) ==
    LET names == Glob(raw, y, m) IN
    /\ names # << >>
    /\ \E i \in DOMAIN names : raw[names[i]].cols = "tpep"
    /\ \E i \in DOMAIN names : raw[names[i]].cols = "lpep"
    /\ \A i \in DOMAIN names : raw[names[i]].cols \in {"tpep", "lpep"}

impute_binds(raw) == period_binds(raw, 2023, 12) /\ period_binds(raw, 2024, 12)

\* the increasing index sequences of 1..n
Picks(n) == { p \in UNION { [1..k -> 1..n] : k \in 0..n } :
                \A i \in DOMAIN p : \A j \in DOMAIN p : i < j => p[i] < p[j] }

\* USING SAMPLE p%: no REPEATABLE seed is given, so every run draws afresh;
\* any sub-sequence of the rows can be the sample
Samples(rows) == { [i \in DOMAIN p |-> rows[p[i]]] : p \in Picks(Len(rows)) }

\* the batches impute_sql can write
impute_outcomes(raw) ==
    { s23 \o s24 : s23 \in Samples(period_rows(raw, 2023, 12, 2)),
                   s24 \in Samples(period_rows(raw, 2024, 12, 1)) }

(***************************************************************************)
(* The clean partition as the aggregations read it                         *)
(***************************************************************************)
\* processed_data/clean_data/*.parquet in glob order
CleanOrder ==
    SelectSeq(MapSeq(NameTable, NameOf), LAMBDA f : Info(f).prefix \in {"fhv", "green"})
    \o << ImputedFile >>
    \o SelectSeq(MapSeq(NameTable, NameOf), LAMBDA f : Info(f).prefix = "yellow")

read_clean(clean) ==
    ConcatRows(clean, SelectSeq(CleanOrder, LAMBDA f : f \in DOMAIN clean))

\* read_parquet of a glob raises when no file matches
clean_glob_ok(clean) == DOMAIN clean # {}

(***************************************************************************)
(* phase2_analysis.py                                                      *)
(***************************************************************************)
FraudSpeedLimit == 100

RECURSIVE SumCol(_, _)
\* SUM(col): NULL values are skipped, NULL when no value is left
SumCol(rows, col) ==
    IF rows = << >> THEN NULL
    ELSE IF Len(rows) = 1 THEN rows[1][col]
    ELSE LET half  == Len(rows) \div 2
             left  == SumCol(SubSeq(rows, 1, half), col)
             right == SumCol(SubSeq(rows, half + 1, Len(rows)), col)
         IN  IF IsNull(left) THEN right
             ELSE IF IsNull(right) THEN left
             ELSE Some(Val(left) + Val(right))

\* analyze_revenue
revenue_table(rows) ==
    << [ total_revenue   |-> SumCol(rows, "total_amount"),
         total_surcharge |-> SumCol(rows, "congestion_surcharge"),
         total_rides     |-> Len(rows) ] >>

\* CASE WHEN (...)/3600.0 = 0 THEN 1 ELSE (...)/3600.0 END
fraud_divisor(c) ==
    IF SqlEq(duration_hrs(c), Lit(0)) = T3 THEN Lit(1) ELSE duration_hrs(c)

fraud_speed(c) == SqlDiv(Num(c.trip_distance), fraud_divisor(c))

fraud_teleporter(c) == SqlGt(fraud_speed(c), Lit(FraudSpeedLimit))

fraud_stationary(c) ==
    And3(SqlEq(Num(c.trip_distance), Lit(0)), SqlGt(Num(c.congestion_surcharge), Lit(0)))

\* the fraud query without its WHERE clause
fraud_where_Missing(c) == T3

\* the WHERE clause of analyze_fraud and analyze_suspicious_vendors
fraud_where(c) == Or3(fraud_teleporter(c), fraud_stationary(c))

\* the CASE of analyze_fraud
violation_type(c) ==
    IF fraud_teleporter(c) = T3 THEN "Teleporter (>100mph)"
    ELSE IF fraud_stationary(c) = T3 THEN "Stationary Charge"
    ELSE "Other"

CountWhere(rows, p(_)) == Len(SelectSeq(rows, p))

\* GROUP BY 1 with COUNT(*)
fraud_groups(rows) ==
    LET kept == Where(rows, fraud_where) IN
    { [ violation_type  |-> violation_type(kept[i]),
        violation_count |-> CountWhere(kept, LAMBDA c : violation_type(c) = violation_type(kept[i])) ]
      : i \in DOMAIN kept }

\* ORDER BY 2 DESC: every order of the groups with the counts descending
\* (groups of equal count come in either order)
OrderedDesc(groups, col) ==
    { s \in [1..Cardinality(groups) -> groups] :
        /\ \A g \in groups : \E i \in DOMAIN s : s[i] = g
        /\ \A i \in DOMAIN s : \A j \in DOMAIN s : i < j => s[i][col] >= s[j][col] }

\* analyze_fraud
fraud_tables(rows) == OrderedDesc(fraud_groups(rows), "violation_count")

\* analyze_suspicious_vendors: GROUP BY pickup_loc, ORDER BY 2 DESC LIMIT 5
VendorLimit == 5

vendor_groups(rows) ==
    LET kept == Where(rows, fraud_where) IN
    { [ VendorID         |-> kept[i].pickup_loc,
        suspicious_trips |-> CountWhere(kept, LAMBDA c : c.pickup_loc = kept[i].pickup_loc) ]
      : i \in DOMAIN kept }

vendor_tables(rows) ==
    { SubSeq(s, 1, IF Len(s) < VendorLimit THEN Len(s) ELSE VendorLimit)
      : s \in OrderedDesc(vendor_groups(rows), "suspicious_trips") }

(***************************************************************************)
(* Arithmetic and predicates of the aggregation queries                    *)
(***************************************************************************)
RECURSIVE GCD(_, _)
GCD(a, b) == IF b = 0 THEN a ELSE GCD(b, a % b)

Abs(k) == IF k < 0 THEN 0 - k ELSE k

\* the rational n / d (d # 0) in lowest terms
RatNorm(n, d) ==
    LET g == GCD(Abs(n), Abs(d))
        r == Rat(n, d)
    IN  [n |-> r.n \div g, d |-> r.d \div g]

RatAdd(a, b) == RatNorm(a.n * b.d + b.n * a.d, a.d * b.d)
RatSub(a, b) == RatNorm(a.n * b.d - b.n * a.d, a.d * b.d)
RatMul(a, b) == RatNorm(a.n * b.n, a.d * b.d)

SqlAdd(x, y) == IF IsNull(x) \/ IsNull(y) THEN NULL ELSE Some(RatAdd(Val(x), Val(y)))
SqlSub(x, y) == IF IsNull(x) \/ IsNull(y) THEN NULL ELSE Some(RatSub(Val(x), Val(y)))
SqlMul(x, y) == IF IsNull(x) \/ IsNull(y) THEN NULL ELSE Some(RatMul(Val(x), Val(y)))

\* COALESCE(x, k)
Coalesce(x, k) == IF IsNull(x) THEN Lit(k) ELSE Num(x)

\* x IN (...) and x NOT IN (...) for a list without NULL
SqlIn(x, S) == IF IsNull(x) THEN U3 ELSE Bool3(Val(x) \in S)

RECURSIVE SumRat(_)
\* SUM over nullable rationals: NULL values are skipped, NULL when none is left
SumRat(vals) ==
    IF vals = << >> THEN NULL
    ELSE IF Len(vals) = 1 THEN vals[1]
    ELSE LET half  == Len(vals) \div 2
             left  == SumRat(SubSeq(vals, 1, half))
             right == SumRat(SubSeq(vals, half + 1, Len(vals)))
         IN  IF IsNull(left) THEN right
             ELSE IF IsNull(right) THEN left
             ELSE SqlAdd(left, right)

\* AVG: the sum of the non-NULL values over their number
AvgRat(vals) ==
    LET k == Len(SelectSeq(vals, LAMBDA v : ~IsNull(v)))
    IN  IF k = 0 THEN NULL ELSE SqlDiv(SumRat(vals), Lit(k))

CONGESTION_ZONE_IDS ==
    { 12, 13, 43, 45, 48, 50, 68, 79, 87, 88, 90, 100, 107, 113, 114, 116, 120, 125,
      137, 140, 141, 142, 143, 144, 148, 151, 152, 153, 158, 161, 162, 163, 164, 166,
      170, 186, 209, 211, 224, 229, 230, 231, 232, 233, 234, 236, 237, 238, 239, 243,
      244, 246, 249, 261, 262, 263 }

BORDER_ZONES ==
    { 238, 239, 263, 262, 236, 237, 74, 75, 142, 143, 43, 48, 50, 100, 161, 162, 163, 164, 230 }

\* MONTH(pickup_time) IN (1, 2, 3)
month_in_q1(c) ==
    IF IsNull(c.pickup_time) THEN U3 ELSE Bool3(Val(c.pickup_time).mo \in {1, 2, 3})

\* t >= literal timestamp
TsGe(t, lit) == IF IsNull(t) THEN U3 ELSE Bool3(epoch(Val(t)) >= epoch(lit))
TsLt(t, lit) == IF IsNull(t) THEN U3 ELSE Bool3(epoch(Val(t)) < epoch(lit))

(***************************************************************************)
(* phase2_analysis.py: analyze_fairness                                    *)
(***************************************************************************)
ShortTripMiles == 2

fare_positive(c) == SqlGt(Num(c.fare), Lit(0))

\* CASE WHEN fare > 0 THEN (total_amount - fare - congestion_surcharge) / fare ELSE 0 END
tip_ratio(c) ==
    IF fare_positive(c) = T3
    THEN SqlDiv(SqlSub(SqlSub(Num(c.total_amount), Num(c.fare)), Num(c.congestion_surcharge)),
                Num(c.fare))
    ELSE Lit(0)

\* CASE WHEN trip_distance < 2 AND dropoff_loc IN (...) THEN 1 ELSE 0 END
short_trip(c) ==
    IF And3(SqlLt(Num(c.trip_distance), Lit(ShortTripMiles)),
            SqlIn(c.dropoff_loc, CONGESTION_ZONE_IDS)) = T3
    THEN 1 ELSE 0

\* the one row of the query: both aggregates run over the rows WHERE fare > 0
fairness_table(rows) ==
    LET kept == Where(rows, fare_positive) IN
    << [ avg_tip_percent  |-> SqlMul(AvgRat(MapSeq(kept, tip_ratio)), Lit(100)),
         short_trip_count |-> IF kept = << >> THEN NULL
                              ELSE Some(CountWhere(kept, LAMBDA c : short_trip(c) = 1)) ] >>

(***************************************************************************)
(* phase2_impact.py: audit_leakage, compare_q1_decline                     *)
(***************************************************************************)
\* '2025-01-05'
CutoverDate == Ts(2025, 1, 4 * 86400)
\* the literal 2.75 of estimated_revenue_loss
SurchargeEstimate == Rat(275, 100)
\* HAVING total_trips > 50 ... LIMIT 3
LeakyMinTrips == 50
LeakyLimit == 3

\* WHERE pickup_time >= '2025-01-05' AND pickup_loc NOT IN (...) AND dropoff_loc IN (...)
eligible(c) ==
    And3(And3(TsGe(c.pickup_time, CutoverDate),
              Not3(SqlIn(c.pickup_loc, CONGESTION_ZONE_IDS))),
         SqlIn(c.dropoff_loc, CONGESTION_ZONE_IDS))

\* CASE WHEN congestion_surcharge > 0 THEN 1 ELSE 0 END
compliant(c) == IF SqlGt(Num(c.congestion_surcharge), Lit(0)) = T3 THEN 1 ELSE 0

\* CASE WHEN congestion_surcharge IS NULL OR congestion_surcharge = 0 THEN 1 ELSE 0 END
missed(c) ==
    IF Or3(Bool3(IsNull(c.congestion_surcharge)), SqlEq(Num(c.congestion_surcharge), Lit(0))) = T3
    THEN 1 ELSE 0

\* the one row of the first query; SUM over no row is NULL
leakage_stats(rows) ==
    LET trips == Where(rows, eligible)
        total == Len(trips)
        comp  == IF total = 0 THEN NULL
                 ELSE Some(CountWhere(trips, LAMBDA c : compliant(c) = 1))
    IN  << [ total_eligible_trips   |-> total,
             compliant_trips        |-> comp,
             compliance_rate_pct    |-> SqlDiv(SqlMul(Num(comp), Lit(100)), Lit(total)),
             estimated_revenue_loss |-> SqlMul(SqlSub(Lit(total), Num(comp)),
                                               Some(SurchargeEstimate)) ] >>

\* GROUP BY pickup_loc HAVING total_trips > 50
leaky_groups(rows) ==
    LET trips == Where(rows, eligible)
        zone(z) == SelectSeq(trips, LAMBDA c : c.pickup_loc = z)
    IN  { [ pickup_loc        |-> z,
            total_trips       |-> Len(zone(z)),
            missed_surcharges |-> CountWhere(zone(z), LAMBDA c : missed(c) = 1),
            leakage_rate_pct  |-> RatNorm(CountWhere(zone(z), LAMBDA c : missed(c) = 1) * 100,
                                          Len(zone(z))) ]
          : z \in { trips[i].pickup_loc : i \in { j \in DOMAIN trips :
                        Len(zone(trips[j].pickup_loc)) > LeakyMinTrips } } }

\* ORDER BY missed_surcharges DESC LIMIT 3
leaky_tables(rows) ==
    { SubSeq(s, 1, IF Len(s) < LeakyLimit THEN Len(s) ELSE LeakyLimit)
      : s \in OrderedDesc(leaky_groups(rows), "missed_surcharges") }

\* the six files compare_q1_decline and plot_border_effect list, in that order
BaselineNames ==
    << "yellow_tripdata_2024-01.parquet", "yellow_tripdata_2024-02.parquet",
       "yellow_tripdata_2024-03.parquet", "green_tripdata_2024-01.parquet",
       "green_tripdata_2024-02.parquet", "green_tripdata_2024-03.parquet" >>

\* read_parquet([...], union_by_name=True): the raw rows of the listed files
baseline_rows(raw) ==
    ConcatRows([f \in DOMAIN raw |-> raw[f].rows], BaselineNames)

\* q1_2024_query UNION ALL q1_2025_query
q1_table(raw, rows) ==
    << [ trip_count |-> CountWhere(baseline_rows(raw),
                           LAMBDA r : SqlIn(r.DOLocationID, CONGESTION_ZONE_IDS) = T3),
         period     |-> "2024 Q1" ],
       [ trip_count |-> CountWhere(rows,
                           LAMBDA c : And3(SqlIn(c.dropoff_loc, CONGESTION_ZONE_IDS),
                                           month_in_q1(c)) = T3),
         period     |-> "2025 Q1" ] >>

(***************************************************************************)
(* phase3_visuals.py: plot_border_effect, plot_crowding_out                *)
(***************************************************************************)
\* CTE t24: GROUP BY DOLocationID over the baseline files
count_2024(raw, z) ==
    CountWhere(baseline_rows(raw),
               LAMBDA r : SqlIn(r.DOLocationID, BORDER_ZONES) = T3 /\ r.DOLocationID = Some(z))

\* CTE t25: GROUP BY dropoff_loc over the clean partition
count_2025(rows, z) ==
    CountWhere(rows,
               LAMBDA c : And3(SqlIn(c.dropoff_loc, BORDER_ZONES), month_in_q1(c)) = T3
                          /\ c.dropoff_loc = Some(z))

\* the join kept as a left join: every zone of the baseline, whatever t25 has
border_rows_LeftJoin(raw, rows) ==
    { [ ZoneID        |-> z,
        pct_change    |-> RatMul(RatNorm(count_2025(rows, z) - count_2024(raw, z),
                                         count_2024(raw, z)), RatInt(100)),
        location_type |-> IF z \in CONGESTION_ZONE_IDS THEN "Inside Zone" ELSE "Outside Zone" ]
      : z \in { y \in BORDER_ZONES : count_2024(raw, y) > 0 } }

\* t24 JOIN t25 ON t24.ZoneID = t25.ZoneID: a group exists in a CTE when it counts a row
border_rows(raw, rows) ==
    { [ ZoneID        |-> z,
        pct_change    |-> RatMul(RatNorm(count_2025(rows, z) - count_2024(raw, z),
                                         count_2024(raw, z)), RatInt(100)),
        location_type |-> IF z \in CONGESTION_ZONE_IDS THEN "Inside Zone" ELSE "Outside Zone" ]
      : z \in { y \in BORDER_ZONES : count_2024(raw, y) > 0 /\ count_2025(rows, y) > 0 } }

\* ORDER BY pct_change DESC
border_tables(raw, rows) ==
    LET out == border_rows(raw, rows) IN
    { s \in [1..Cardinality(out) -> out] :
        /\ \A g \in out : \E i \in DOMAIN s : s[i] = g
        /\ \A i \in DOMAIN s : \A j \in DOMAIN s :
              i < j => ~RatLt(s[i].pct_change, s[j].pct_change) }

\* WHERE fare > 0 AND pickup_time >= '2024-01-01' AND pickup_time < '2026-01-01'
crowding_where(c) ==
    And3(And3(fare_positive(c), TsGe(c.pickup_time, Ts(2024, 1, 0))),
         TsLt(c.pickup_time, Ts(2026, 1, 0)))

\* the tip CASE of plot_crowding_out, every column coalesced
crowding_tip(c) ==
    IF fare_positive(c) = T3
    THEN SqlDiv(SqlSub(SqlSub(Coalesce(c.total_amount, 0), Coalesce(c.fare, 0)),
                       Coalesce(c.congestion_surcharge, 0)),
                Coalesce(c.fare, 1))
    ELSE Lit(0)

\* GROUP BY month ORDER BY month: the frame that is plotted
crowding_table(rows) ==
    LET kept == Where(rows, crowding_where)
        month(c) == << Val(c.pickup_time).y, Val(c.pickup_time).mo >>
        months == { month(kept[i]) : i \in DOMAIN kept }
        of(m) == SelectSeq(kept, LAMBDA c : month(c) = m)
        line(m) == [ month_str     |-> m,
                     avg_surcharge |-> AvgRat(MapSeq(of(m),
                                          LAMBDA c : Coalesce(c.congestion_surcharge, 0))),
                     avg_tip_pct   |-> SqlMul(AvgRat(MapSeq(of(m), crowding_tip)), Lit(100)) ]
        before(a, b) == a[1] < b[1] \/ (a[1] = b[1] /\ a[2] < b[2])
    IN  CHOOSE s \in [1..Cardinality(months) -> { line(m) : m \in months }] :
            \A i \in DOMAIN s : \A j \in DOMAIN s : i < j => before(s[i].month_str, s[j].month_str)

(***************************************************************************)
(* Directories and events                                                  *)
(***************************************************************************)
\* a write that leaves the written file alone in its directory
Put_ReplacingDirectory(f, k, v) == [x \in {k} |-> v]

Put(f, k, v) == [x \in DOMAIN f \cup {k} |-> IF x = k THEN v ELSE f[x]]
EmptyDir == [x \in {} |-> << >>]
Ev(stage, unit) == [stage |-> stage, unit |-> unit]

(***************************************************************************)
(* Raw directories the runs start from                                     *)
(***************************************************************************)
File(cols, rows) == [cols |-> cols, rows |-> rows]

Row(pickup, dropoff, pu, do, dist, fare, total, surcharge) ==
    [ pickup_datetime      |-> pickup,
      dropoff_datetime     |-> dropoff,
      PULocationID         |-> pu,
      DOLocationID         |-> do,
      trip_distance        |-> dist,
      fare_amount          |-> fare,
      total_amount         |-> total,
      congestion_surcharge |-> surcharge ]

\* zone ids of the rows: JFK (outside the congestion zone), Midtown Center (inside)
ZoneOutside == 100 + 32
ZoneInside == 100 + 61

\* 1 mile in one hour on the given day, fare 10: no flag of the classifier holds
PlainRow(y, mo, s) ==
    Row(Some(Ts(y, mo, s)), Some(Ts(y, mo, s + 3600)), Some(ZoneOutside), Some(ZoneInside),
        Some(1), Some(10), Some(15), Some(3))

\* a standing meter: distance 0 with a fare, the is_stationary case
StationaryRow(y, mo, s) ==
    Row(Some(Ts(y, mo, s)), Some(Ts(y, mo, s + 3600)), Some(ZoneOutside), Some(ZoneInside),
        Some(0), Some(10), Some(10), NULL)

DaySix == 5 * 86400

\* the fields of the rows of the 2025 batch of InitRow
TimePairs ==
    { << Some(Ts(2025, 2, DaySix)), Some(Ts(2025, 2, DaySix)) >>,
      << Some(Ts(2025, 2, DaySix)), Some(Ts(2025, 2, DaySix + 30)) >>,
      << Some(Ts(2025, 2, DaySix)), Some(Ts(2025, 2, DaySix + 3600)) >>,
      << Some(Ts(2025, 2, DaySix + 30)), Some(Ts(2025, 2, DaySix)) >>,
      << NULL, Some(Ts(2025, 2, DaySix)) >> }
Distances == { NULL, Some(0), Some(1), Some(120) }
Fares == { NULL, Some(0), Some(10), Some(25) }
Surcharges == { NULL, Some(0), Some(3) }

RowDomain ==
    { Row(tp[1], tp[2], Some(ZoneOutside), Some(ZoneInside), d, f, Some(30), sc) :
        tp \in TimePairs, d \in Distances, f \in Fares, sc \in Surcharges }

\* rows of RowDomain for the longer batches of InitRow: two that the
\* classifier keeps and the fraud query counts, and one it does not count
FraudRows ==
    { Row(Some(Ts(2025, 2, DaySix)), Some(Ts(2025, 2, DaySix)), Some(ZoneOutside),
          Some(ZoneInside), Some(120), Some(10), Some(30), Some(0)),
      Row(Some(Ts(2025, 2, DaySix)), Some(Ts(2025, 2, DaySix + 3600)), Some(ZoneOutside),
          Some(ZoneInside), Some(0), Some(0), Some(30), Some(3)),
      Row(Some(Ts(2025, 2, DaySix)), Some(Ts(2025, 2, DaySix + 3600)), Some(ZoneOutside),
          Some(ZoneInside), Some(1), Some(10), Some(30), Some(3)) }

\* the rows of the 2025 batches of Init
RowPool == { PlainRow(2025, 1, DaySix), StationaryRow(2025, 1, DaySix) }

SeqUpTo(S, n) == UNION { [1..k -> S] : k \in 0..n }

\* the December batches impute_december samples
SourcesComplete ==
    ("green_tripdata_2023-12.parquet" :> File("lpep", << >>))
    @@ ("yellow_tripdata_2023-12.parquet" :> File("tpep", << StationaryRow(2023, 12, DaySix) >>))
    @@ ("green_tripdata_2024-12.parquet" :> File("lpep", << >>))
    @@ ("yellow_tripdata_2024-12.parquet" :> File("tpep", << PlainRow(2024, 12, DaySix) >>))

\* the same files with the one row of December 2023
SourcesOneRow ==
    ("green_tripdata_2023-12.parquet" :> File("lpep", << >>))
    @@ ("yellow_tripdata_2023-12.parquet" :> File("tpep", << StationaryRow(2023, 12, DaySix) >>))
    @@ ("green_tripdata_2024-12.parquet" :> File("lpep", << >>))
    @@ ("yellow_tripdata_2024-12.parquet" :> File("tpep", << >>))

Without(dir, names) == [f \in DOMAIN dir \ names |-> dir[f]]

\* the December batches, the green one of 2023 holding a trip that was picked
\* up in November (monthly files carry such records)
SourcesStray ==
    ("green_tripdata_2023-12.parquet" :> File("lpep", << PlainRow(2023, 11, DaySix) >>))
    @@ SourcesComplete

SourceChoices ==
    { SourcesComplete,
      SourcesStray,
      Without(SourcesComplete, {"green_tripdata_2023-12.parquet"}),
      EmptyDir }

\* the Q1 2024 batches of the period comparison
BaselineComplete ==
    ("green_tripdata_2024-01.parquet" :> File("lpep", << >>))
    @@ ("green_tripdata_2024-02.parquet" :> File("lpep", << >>))
    @@ ("green_tripdata_2024-03.parquet" :> File("lpep", << >>))
    @@ ("yellow_tripdata_2024-01.parquet" :> File("tpep", << PlainRow(2024, 1, DaySix) >>))
    @@ ("yellow_tripdata_2024-02.parquet" :> File("tpep", << >>))
    @@ ("yellow_tripdata_2024-03.parquet" :> File("tpep", << >>))

BaselineChoices ==
    { BaselineComplete, Without(BaselineComplete, {"green_tripdata_2024-03.parquet"}) }

\* a 2025 batch: absent, a file of the dialect `cols`, or a file that cannot be read
BatchChoices(name, cols, pool) ==
    { EmptyDir, name :> File("none", << >>) }
    \cup { name :> File(cols, rows) : rows \in SeqUpTo(pool, MaxRows) }

(***************************************************************************)
(* pipeline.py: main, and the run methods it calls, step by step           *)
(***************************************************************************)
\* main() with the core analysis started before the imputation
MainOrder_ImputeLate ==
    << "p1_reset", "p1_batch", "analyze_revenue", "p1_impute",
       "analyze_fairness", "analyze_fraud", "analyze_suspicious_vendors",
       "audit_leakage", "compare_q1_decline",
       "plot_border_effect", "plot_velocity_heatmaps", "plot_crowding_out",
       "calculate_elasticity", "report", "banner" >>

\* the calls of main() and of the run() methods, in program order
MainOrder ==
    << "p1_reset", "p1_batch", "p1_impute",
       "analyze_revenue", "analyze_fairness", "analyze_fraud", "analyze_suspicious_vendors",
       "audit_leakage", "compare_q1_decline",
       "plot_border_effect", "plot_velocity_heatmaps", "plot_crowding_out",
       "calculate_elasticity", "report", "banner" >>

\* the step after `step`
StepAfter(step) ==
    LET i == CHOOSE k \in DOMAIN MainOrder : MainOrder[k] = step
    IN  MainOrder[i + 1]

\* the steps that persist an output, where an Output Error can strike
FaultPoints ==
    { "analyze_revenue", "analyze_fairness", "analyze_fraud", "analyze_suspicious_vendors",
      "audit_leakage", "compare_q1_decline", "plot_border_effect", "plot_velocity_heatmaps",
      "plot_crowding_out", "calculate_elasticity", "report" }

Artifact(rows) == [run |-> run, rows |-> rows]

RECURSIVE PutAll(_, _, _)
PutAll(f, names, rows) ==
    IF names = << >> THEN f
    ELSE PutAll(Put(f, Head(names), Artifact(rows)), Tail(names), rows)

\* an exception nobody catches: the traceback ends the process with status 1
Raise(step) ==
    /\ pc' = "exit"
    /\ exit_status' = Some(1)
    /\ failed' = Append(failed, step)

\* an exception a try/except of the step catches and prints
Swallow(step) ==
    /\ pc' = StepAfter(step)
    /\ failed' = Append(failed, step)
    /\ UNCHANGED exit_status

Continue(step) ==
    /\ pc' = StepAfter(step)
    /\ UNCHANGED << failed, exit_status >>

\* the two output directories as run() leaves them
Outputs(clean, audit) == [clean |-> clean, audit |-> audit]

\* DuckDBPipeline.run, lines 128-135: reset the output directories, glob and sort
RunStart ==
    /\ pc = "p1_reset"
    /\ clean_data' = EmptyDir
    /\ audit_log' = EmptyDir
    /\ files' = SelectSeq(MapSeq(NameTable, NameOf),
                          LAMBDA f : f \in DOMAIN raw_data /\ Info(f).y = 2025)
    /\ idx' = 1
    /\ Continue("p1_reset")
    /\ UNCHANGED << io, outputs_log, raw_data, results, run, fault, banner, log, imputed_log >>

\* one pass of the for loop of run: process_batch(f, basename(f))
ProcessBatch ==
    /\ pc = "p1_batch"
    /\ idx <= Len(files)
    /\ LET f == files[idx] IN
       IF batch_readable(raw_data[f], f)
       THEN /\ clean_data' = Put(clean_data, f, clean_rows(raw_data[f], f))
            /\ audit_log' = Put(audit_log, f, audit_rows(raw_data[f], f))
            /\ log' = log \o << Ev("Ingestion", f), Ev("Classification", f) >>
            /\ idx' = idx + 1
            /\ UNCHANGED << pc, failed, exit_status, outputs_log >>
       ELSE /\ Raise("p1_batch")
            /\ log' = Append(log, Ev("Ingestion", f))
            /\ outputs_log' = Append(outputs_log, Outputs(clean_data, audit_log))
            /\ UNCHANGED << clean_data, audit_log, idx >>
    /\ UNCHANGED << io, raw_data, results, files, run, fault, banner, imputed_log >>

\* the end of the for loop
BatchesDone ==
    /\ pc = "p1_batch"
    /\ idx > Len(files)
    /\ Continue("p1_batch")
    /\ UNCHANGED << io, outputs_log, raw_data, clean_data, audit_log, results, files, idx, run, fault,
                    banner, log, imputed_log >>

\* run, lines 141-143, with impute_december when it is called
ImputeDecember ==
    /\ pc = "p1_impute"
    /\ IF \E i \in DOMAIN files : Info(files[i]).y = 2025 /\ Info(files[i]).m = 12
       THEN /\ Continue("p1_impute")
            /\ UNCHANGED << clean_data, log, imputed_log >>
       ELSE IF impute_binds(raw_data)
       THEN /\ \E batch \in impute_outcomes(raw_data) :
                 /\ clean_data' = Put(clean_data, ImputedFile, batch)
                 /\ imputed_log' = Append(imputed_log, batch)
            /\ log' = Append(log, Ev("Imputation", ImputedFile))
            /\ Continue("p1_impute")
       ELSE /\ Swallow("p1_impute")
            /\ log' = Append(log, Ev("Imputation", ImputedFile))
            /\ UNCHANGED << clean_data, imputed_log >>
    /\ outputs_log' = Append(outputs_log, Outputs(clean_data', audit_log))
    /\ UNCHANGED << io, raw_data, audit_log, results, files, idx, run, fault, banner >>

\* read_parquet([...]) raises when a listed file is missing or unreadable
list_readable(raw, names) ==
    \A i \in DOMAIN names :
        names[i] \in DOMAIN raw /\ raw[names[i]].cols \in {"tpep", "lpep"}

\* plot_velocity_heatmaps reads the tpep columns of the three yellow files
velocity_readable(raw) ==
    \A i \in 1..3 :
        BaselineNames[i] \in DOMAIN raw /\ raw[BaselineNames[i]].cols = "tpep"

WriteEvents(outs) == [i \in DOMAIN outs |-> Ev("Write", outs[i])]

\* a method that runs one query over its inputs and persists `outs`; an
\* exception leaves the method, and the caller, at once
Aggregate(step, inputs_ok, outs, contents) ==
    /\ pc = step
    /\ IF inputs_ok /\ fault # step
       THEN /\ \E rows \in contents : results' = PutAll(results, outs, rows)
            /\ log' = Append(log, Ev("Aggregation", step)) \o WriteEvents(outs)
            /\ Continue(step)
       ELSE /\ Raise(step)
            /\ log' = IF inputs_ok THEN Append(log, Ev("Aggregation", step)) ELSE log
            /\ UNCHANGED results
    /\ UNCHANGED << io, outputs_log, raw_data, clean_data, audit_log, files, idx, run, fault, banner,
                    imputed_log >>

\* the content of an output whose rows no checked property reads
NoRows == { << >> }

analyze_revenue ==
    Aggregate("analyze_revenue", clean_glob_ok(clean_data), << "summary_revenue.csv" >>,
              { revenue_table(read_clean(clean_data)) })

analyze_fairness ==
    Aggregate("analyze_fairness", clean_glob_ok(clean_data), << "summary_fairness.csv" >>,
              { fairness_table(read_clean(clean_data)) })

analyze_fraud ==
    Aggregate("analyze_fraud", clean_glob_ok(clean_data), << "summary_fraud.csv" >>,
              fraud_tables(read_clean(clean_data)))

analyze_suspicious_vendors ==
    Aggregate("analyze_suspicious_vendors", clean_glob_ok(clean_data),
              << "audit_suspicious_vendors.csv" >>, vendor_tables(read_clean(clean_data)))

\* the two queries of audit_leakage, each followed by its to_csv
audit_leakage ==
    /\ pc = "audit_leakage"
    /\ IF clean_glob_ok(clean_data) /\ fault # "audit_leakage"
       THEN /\ \E locs \in leaky_tables(read_clean(clean_data)) :
                 results' = Put(Put(results, "audit_leakage_stats.csv",
                                    Artifact(leakage_stats(read_clean(clean_data)))),
                                "audit_top3_leakage_locs.csv", Artifact(locs))
            /\ log' = log \o << Ev("Aggregation", "audit_leakage"),
                                Ev("Write", "audit_leakage_stats.csv"),
                                Ev("Write", "audit_top3_leakage_locs.csv") >>
            /\ Continue("audit_leakage")
       ELSE /\ Raise("audit_leakage")
            /\ log' = IF clean_glob_ok(clean_data)
                      THEN Append(log, Ev("Aggregation", "audit_leakage")) ELSE log
            /\ UNCHANGED results
    /\ UNCHANGED << io, outputs_log, raw_data, clean_data, audit_log, files, idx, run, fault, banner,
                    imputed_log >>

\* the whole body is inside try/except: the error is printed and run() goes on
compare_q1_decline ==
    /\ pc = "compare_q1_decline"
    /\ IF list_readable(raw_data, BaselineNames) /\ clean_glob_ok(clean_data)
          /\ fault # "compare_q1_decline"
       THEN /\ results' = PutAll(results, << "impact_q1_comparison.csv" >>,
                                 q1_table(raw_data, read_clean(clean_data)))
            /\ log' = log \o << Ev("Aggregation", "compare_q1_decline"),
                                Ev("Write", "impact_q1_comparison.csv") >>
            /\ Continue("compare_q1_decline")
       ELSE /\ Swallow("compare_q1_decline")
            /\ UNCHANGED << results, log >>
    /\ UNCHANGED << io, outputs_log, raw_data, clean_data, audit_log, files, idx, run, fault, banner,
                    imputed_log >>

plot_border_effect ==
    Aggregate("plot_border_effect",
              list_readable(raw_data, BaselineNames) /\ clean_glob_ok(clean_data),
              << "border_effect.csv", "viz_border_effect.png" >>,
              border_tables(raw_data, read_clean(clean_data)))

plot_velocity_heatmaps ==
    Aggregate("plot_velocity_heatmaps",
              velocity_readable(raw_data) /\ clean_glob_ok(clean_data),
              << "viz_velocity_2024.png", "viz_velocity_2025.png", "viz_velocity_heatmap.png" >>,
              NoRows)

plot_crowding_out ==
    Aggregate("plot_crowding_out", clean_glob_ok(clean_data), << "viz_crowding_out.png" >>,
              { crowding_table(read_clean(clean_data)) })

\* the inner join of the daily trip counts with the 2025 weather series has a row
merged_nonempty(rows) ==
    \E i \in DOMAIN rows : ~IsNull(rows[i].pickup_time) /\ Val(rows[i].pickup_time).y = 2025

\* RainTaxAnalysis.calculate_elasticity: the csv is written first; idxmax() of
\* the empty month sums then raises when the join is empty
calculate_elasticity ==
    /\ pc = "calculate_elasticity"
    /\ IF clean_glob_ok(clean_data) /\ fault # "calculate_elasticity"
       THEN IF merged_nonempty(read_clean(clean_data))
            THEN /\ results' = PutAll(results, << "weather_elasticity.csv",
                                                  "viz_rain_elasticity.png" >>, << >>)
                 /\ log' = log \o << Ev("Aggregation", "calculate_elasticity"),
                                     Ev("Write", "weather_elasticity.csv"),
                                     Ev("Write", "viz_rain_elasticity.png") >>
                 /\ Continue("calculate_elasticity")
            ELSE /\ results' = PutAll(results, << "weather_elasticity.csv" >>, << >>)
                 /\ log' = log \o << Ev("Aggregation", "calculate_elasticity"),
                                     Ev("Write", "weather_elasticity.csv") >>
                 /\ Raise("calculate_elasticity")
       ELSE /\ Raise("calculate_elasticity")
            /\ UNCHANGED << results, log >>
    /\ UNCHANGED << io, outputs_log, raw_data, clean_data, audit_log, files, idx, run, fault, banner,
                    imputed_log >>

\* the tables ReportGenerator.run loads
ReportTables ==
    { "summary_revenue.csv", "impact_q1_comparison.csv", "summary_fairness.csv",
      "audit_leakage_stats.csv", "summary_fraud.csv", "audit_suspicious_vendors.csv",
      "weather_elasticity.csv" }

\* the lines run adds to the report: one per table that load_csv found, under
\* the condition the code puts on its content
report_sections(res) ==
    LET has(t) == t \in DOMAIN res IN
    [ revenue  |-> has("summary_revenue.csv"),
      q1       |-> has("impact_q1_comparison.csv")
                   /\ Len(res["impact_q1_comparison.csv"].rows) = 2,
      fairness |-> has("summary_fairness.csv"),
      leakage  |-> has("audit_leakage_stats.csv"),
      fraud    |-> has("summary_fraud.csv") /\ res["summary_fraud.csv"].rows # << >>,
      vendors  |-> has("audit_suspicious_vendors.csv")
                   /\ res["audit_suspicious_vendors.csv"].rows # << >>,
      rain     |-> has("weather_elasticity.csv") ]

\* int(row['VendorID']) of a vendor row without a pickup zone: the csv cell is
\* empty, read_csv gives NaN and int(NaN) raises ValueError
report_raises(res) ==
    /\ "audit_suspicious_vendors.csv" \in DOMAIN res
    /\ \E i \in DOMAIN res["audit_suspicious_vendors.csv"].rows :
          IsNull(res["audit_suspicious_vendors.csv"].rows[i].VendorID)

\* ReportGenerator.run: every table is optional (load_csv gives None)
report ==
    /\ pc = "report"
    /\ IF fault # "report" /\ ~report_raises(results)
       THEN /\ results' = PutAll(results, << "audit_report.pdf" >>,
                                 << report_sections(results) >>)
            /\ Continue("report")
       ELSE /\ Raise("report")
            /\ UNCHANGED results
    /\ UNCHANGED << io, outputs_log, raw_data, clean_data, audit_log, files, idx, run, fault, banner,
                    log, imputed_log >>

\* main, line 55, and the normal end of the process
Banner ==
    /\ pc = "banner"
    /\ banner' = TRUE
    /\ pc' = "exit"
    /\ exit_status' = Some(0)
    /\ UNCHANGED << io, outputs_log, raw_data, clean_data, audit_log, results, files, idx, run, fault,
                    failed, log, imputed_log >>

\* the CLI is started again over the same raw directory and over the results
\* directory the last run left; the new process can meet an output error at
\* any of its writes, or at none
Restart ==
    /\ pc = "exit"
    /\ run < MaxRuns
    /\ run' = run + 1
    /\ pc' = "p1_reset"
    /\ failed' = << >>
    /\ banner' = FALSE
    /\ exit_status' = NULL
    /\ log' = << >>
    /\ files' = << >>
    /\ idx' = 1
    /\ fault' \in FaultPoints \cup { "none" }
    /\ UNCHANGED << io, outputs_log, raw_data, clean_data, audit_log, results, imputed_log >>

(***************************************************************************)
(* DataFrame.to_csv(path, index=False) step by step, as a reader of the     *)
(* results directory in another process sees it: the file is opened for     *)
(* writing, which empties it, the lines reach the file as the buffer is     *)
(* flushed, and close writes the rest.                                      *)
(***************************************************************************)
\* the lines of the csv file of a table: the column names, then the rows
csv_lines(rows) == << "header" >> \o rows

\* the lines of results/<t> at this moment
on_disk(t) ==
    IF wr # NULL /\ Val(wr).name = t THEN Val(wr).written
    ELSE csv_lines(results[t].rows)

\* analyze_revenue, line 21: the query has run and to_csv opens the file
to_csv_open ==
    /\ pc = "analyze_revenue"
    /\ wr = NULL
    /\ clean_glob_ok(clean_data)
    /\ wr' = Some([ name    |-> "summary_revenue.csv",
                    written |-> << >>,
                    pending |-> csv_lines(revenue_table(read_clean(clean_data))) ])
    /\ log' = Append(log, Ev("Aggregation", "analyze_revenue"))
    /\ UNCHANGED << raw_data, clean_data, audit_log, results, pc, files, idx, run, fault,
                    failed, banner, exit_status, imputed_log, observed, outputs_log >>

\* some of the buffered lines reach the file
to_csv_flush ==
    /\ wr # NULL
    /\ \E k \in 1..(Len(Val(wr).pending) - 1) :
          wr' = Some([ Val(wr) EXCEPT
                          !.written = @ \o SubSeq(Val(wr).pending, 1, k),
                          !.pending = SubSeq(Val(wr).pending, k + 1, Len(Val(wr).pending)) ])
    /\ UNCHANGED << raw_data, clean_data, audit_log, results, pc, files, idx, run, fault,
                    failed, banner, exit_status, log, imputed_log, observed, outputs_log >>

\* the file is closed: the table is complete and analyze_revenue returns
to_csv_close ==
    /\ wr # NULL
    /\ results' = Put(results, Val(wr).name, Artifact(Tail(Val(wr).written \o Val(wr).pending)))
    /\ wr' = NULL
    /\ log' = Append(log, Ev("Write", Val(wr).name))
    /\ Continue("analyze_revenue")
    /\ UNCHANGED << raw_data, clean_data, audit_log, files, idx, run, fault, banner,
                    imputed_log, observed, outputs_log >>

\* ReportGenerator.load_csv (and load_data of the dashboard) in another
\* process: os.path.exists, then pd.read_csv of what the file holds now
load_csv ==
    /\ \E t \in DOMAIN results :
          observed' = observed \cup
              { [ name     |-> t,
                  lines    |-> on_disk(t),
                  previous |-> csv_lines(results[t].rows),
                  new      |-> IF wr # NULL /\ Val(wr).name = t
                               THEN Val(wr).written \o Val(wr).pending
                               ELSE csv_lines(results[t].rows) ] }
    /\ UNCHANGED << raw_data, clean_data, audit_log, results, pc, files, idx, run, fault,
                    failed, banner, exit_status, log, imputed_log, wr, outputs_log >>

(***************************************************************************)
(* Specifications                                                          *)
(***************************************************************************)
Start(raw, flt) ==
    /\ raw_data = raw
    /\ fault = flt
    /\ clean_data = EmptyDir
    /\ audit_log = EmptyDir
    /\ results = EmptyDir
    /\ pc = "p1_reset"
    /\ files = << >>
    /\ idx = 1
    /\ run = 1
    /\ failed = << >>
    /\ banner = FALSE
    /\ exit_status = NULL
    /\ log = << >>
    /\ imputed_log = << >>
    /\ wr = NULL
    /\ observed = { }
    /\ outputs_log = << >>

\* raw directories with up to three 2025 batches, with or without the batches
\* the imputation and the comparisons read, and at most one output fault
Init ==
    \E fhv \in BatchChoices("fhv_tripdata_2025-01.parquet", "lpep", { PlainRow(2025, 1, DaySix) }),
       grn \in BatchChoices("green_tripdata_2025-01.parquet", "lpep", RowPool),
       ylw \in BatchChoices("yellow_tripdata_2025-02.parquet", "tpep", RowPool),
       src \in SourceChoices,
       base \in BaselineChoices,
       flt \in FaultPoints \cup {"none"} :
        Start(fhv @@ grn @@ ylw @@ src @@ base, flt)

\* one 2025 batch in a complete raw directory: up to MaxRows arbitrary rows,
\* or one row more of FraudRows
InitRow ==
    \E rows \in SeqUpTo(RowDomain, MaxRows) \cup SeqUpTo(FraudRows, MaxRows + 1) :
        Start(("yellow_tripdata_2025-02.parquet" :> File("tpep", rows))
              @@ SourcesOneRow @@ BaselineComplete, "none")

\* a complete raw directory that is processed more than once
InitRerun ==
    \E ylw \in BatchChoices("yellow_tripdata_2025-02.parquet", "tpep", RowPool),
       dec \in { EmptyDir, "yellow_tripdata_2025-12.parquet" :> File("tpep", << >>) } :
        Start(ylw @@ dec @@ SourcesComplete @@ BaselineComplete, "none")

\* the canonical rows the clean partitions of InitWrite are made of
CleanPool == { raw_data_cte(r, "yellow") : r \in FraudRows }

\* the second run of the pipeline has reached analyze_revenue: the results
\* directory holds the revenue table of the first run, computed from another
\* clean partition, and a consumer is reading the directory
InitWrite ==
    \E before \in SeqUpTo(CleanPool, MaxRows + 1), now \in SeqUpTo(CleanPool, MaxRows + 1) :
        /\ raw_data = SourcesComplete @@ BaselineComplete
        /\ fault = "none"
        /\ clean_data = ("yellow_tripdata_2025-02.parquet" :> now)
        /\ audit_log = ("yellow_tripdata_2025-02.parquet" :> << >>)
        /\ results = ("summary_revenue.csv" :> [run |-> 1, rows |-> revenue_table(before)])
        /\ pc = "analyze_revenue"
        /\ files = << >>
        /\ idx = 1
        /\ run = 2
        /\ failed = << >>
        /\ banner = FALSE
        /\ exit_status = NULL
        /\ log = << >>
        /\ imputed_log = << >>
        /\ wr = NULL
        /\ observed = { }
        /\ outputs_log = << >>

\* a trip of one hour
Trip(pickup, pu, do, dist, fare, total, surcharge) ==
    Row(Some(pickup), Some([pickup EXCEPT !.s = @ + 3600]), pu, do, dist, fare, total, surcharge)

\* two border zones outside the congestion zone, one more inside it
ZoneBorderA == 70 + 4
ZoneBorderD == 70 + 5
ZoneBorderC == 200 + 30

\* the rows of the 2025 batch of InitAudit: each differs from the first in the
\* field one of the aggregation queries tests
AuditRows ==
    { Trip(Ts(2025, 2, DaySix), Some(ZoneOutside), Some(ZoneInside), Some(1), Some(10), Some(15), Some(3)),
      Trip(Ts(2025, 2, DaySix), Some(ZoneOutside), Some(ZoneInside), Some(1), Some(10), Some(12), NULL),
      Trip(Ts(2025, 2, DaySix), Some(ZoneOutside), Some(ZoneInside), Some(1), Some(10), Some(12), Some(0)),
      Trip(Ts(2025, 2, DaySix), Some(ZoneOutside), Some(ZoneInside), Some(1), Some(0), Some(0), Some(0)),
      Trip(Ts(2024, 2, DaySix), Some(ZoneOutside), Some(ZoneInside), Some(3), Some(10), Some(15), Some(3)),
      Trip(Ts(2025, 4, DaySix), Some(ZoneInside), Some(ZoneBorderA), Some(1), Some(10), Some(15), Some(3)),
      Trip(Ts(2025, 1, 86400), NULL, Some(ZoneInside), Some(0), Some(0), Some(3), Some(3)),
      Trip(Ts(2025, 2, DaySix), Some(ZoneOutside), NULL, Some(1), Some(10), Some(15), Some(0 - 1)) }

\* 100 eligible trips, 80 of them with a surcharge
HundredTrips ==
    [ i \in 1..100 |->
        Trip(Ts(2025, 2, DaySix), Some(ZoneOutside), Some(ZoneInside), Some(1), Some(10), Some(15),
             IF i <= 80 THEN Some(3) ELSE IF i <= 90 THEN Some(0) ELSE NULL) ]

\* 60 eligible trips from one zone: 40 with a surcharge, 10 with a surcharge
\* of zero, 5 without one and 5 with a negative one (a refund)
RefundTrips ==
    [ i \in 1..60 |->
        Trip(Ts(2025, 2, DaySix), Some(ZoneOutside), Some(ZoneInside), Some(1), Some(10), Some(15),
             IF i <= 40 THEN Some(3) ELSE IF i <= 50 THEN Some(0)
             ELSE IF i <= 55 THEN NULL ELSE Some(0 - 1)) ]

\* drop-offs in the border zones B, C and D
BorderTrips ==
    << Trip(Ts(2025, 2, DaySix), Some(ZoneOutside), Some(ZoneInside), Some(1), Some(10), Some(15), Some(3)),
       Trip(Ts(2025, 2, DaySix), Some(ZoneOutside), Some(ZoneBorderC), Some(1), Some(10), Some(15), Some(3)),
       Trip(Ts(2025, 3, DaySix), Some(ZoneOutside), Some(ZoneBorderC), Some(1), Some(10), Some(15), Some(3)),
       Trip(Ts(2025, 3, DaySix), Some(ZoneOutside), Some(ZoneBorderD), Some(1), Some(10), Some(15), Some(3)) >>

\* Q1 2024 batches with drop-offs in the border zones A, B and C
BaselineBorder ==
    ("yellow_tripdata_2024-01.parquet" :>
        File("tpep", << Trip(Ts(2024, 1, DaySix), Some(ZoneOutside), Some(ZoneBorderA), Some(1), Some(10), Some(15), NULL),
                        Trip(Ts(2024, 1, DaySix), Some(ZoneOutside), Some(ZoneInside), Some(1), Some(10), Some(15), NULL) >>))
    @@ ("green_tripdata_2024-03.parquet" :>
        File("lpep", << Trip(Ts(2024, 3, DaySix), Some(ZoneOutside), Some(ZoneInside), Some(1), Some(10), Some(15), NULL),
                        Trip(Ts(2024, 3, DaySix), Some(ZoneOutside), Some(ZoneBorderC), Some(1), Some(10), Some(15), NULL) >>))
    @@ BaselineComplete

\* Q1 2024 batches, the January file holding a trip picked up in December 2023
BaselineStray ==
    ("yellow_tripdata_2024-01.parquet" :> File("tpep", << PlainRow(2023, 12, DaySix) >>))
    @@ BaselineComplete

\* one 2025 batch of the rows the aggregations tell apart, or one of the three
\* larger batches, over one of three baselines
InitAudit ==
    \E rows \in SeqUpTo(AuditRows, MaxRows + 1) \cup { HundredTrips, RefundTrips, BorderTrips },
       base \in { BaselineComplete, BaselineBorder, BaselineStray } :
        Start(("yellow_tripdata_2025-02.parquet" :> File("tpep", rows))
              @@ SourcesOneRow @@ base, "none")

\* phase4_report.py run on its own over a results directory that holds any
\* of the tables a pipeline run over a clean partition writes
InitReport ==
    \E rows \in SeqUpTo({ raw_data_cte(r, "yellow") : r \in AuditRows }, MaxRows),
       present \in SUBSET ReportTables :
       \E fraud \in fraud_tables(rows), vendors \in vendor_tables(rows) :
        LET written ==
              ("summary_revenue.csv" :> revenue_table(rows))
              @@ ("impact_q1_comparison.csv" :> q1_table(BaselineComplete, rows))
              @@ ("summary_fairness.csv" :> fairness_table(rows))
              @@ ("audit_leakage_stats.csv" :> leakage_stats(rows))
              @@ ("summary_fraud.csv" :> fraud)
              @@ ("audit_suspicious_vendors.csv" :> vendors)
              @@ ("weather_elasticity.csv" :> << >>)
        IN
        /\ raw_data = BaselineComplete
        /\ fault = "none"
        /\ clean_data = ("yellow_tripdata_2025-02.parquet" :> rows)
        /\ audit_log = ("yellow_tripdata_2025-02.parquet" :> << >>)
        /\ results = [t \in present |-> [run |-> 1, rows |-> written[t]]]
        /\ pc = "report"
        /\ files = << >>
        /\ idx = 1
        /\ run = 1
        /\ failed = << >>
        /\ banner = FALSE
        /\ exit_status = NULL
        /\ log = << >>
        /\ imputed_log = << >>
        /\ wr = NULL
        /\ observed = { }
        /\ outputs_log = << >>

NextReport == report

NextWrite ==
    \/ to_csv_open
    \/ to_csv_flush
    \/ to_csv_close
    \/ load_csv

Next ==
    \/ RunStart
    \/ ProcessBatch
    \/ BatchesDone
    \/ ImputeDecember
    \/ analyze_revenue
    \/ analyze_fairness
    \/ analyze_fraud
    \/ analyze_suspicious_vendors
    \/ audit_leakage
    \/ compare_q1_decline
    \/ plot_border_effect
    \/ plot_velocity_heatmaps
    \/ plot_crowding_out
    \/ calculate_elasticity
    \/ report
    \/ Banner

NextRerun == Next \/ Restart

Spec == Init /\ [][Next]_vars
SpecRow == InitRow /\ [][Next]_vars
SpecRerun == InitRerun /\ [][NextRerun]_vars
SpecWrite == InitWrite /\ [][NextWrite]_vars
SpecAudit == InitAudit /\ [][Next]_vars
SpecReport == InitReport /\ [][NextReport]_vars

(***************************************************************************)
(* Properties                                                              *)
(***************************************************************************)
Count(s, x) == Cardinality({ i \in DOMAIN s : s[i] = x })
Range(s) == { s[i] : i \in DOMAIN s }

\* the batches process_batch has written
Processed == DOMAIN audit_log

\* C1: every raw record of a processed batch, null fields included, is in
\* exactly one of the clean output and the audit output of its batch.
C1_TotalDisjointPartition ==
    \A f \in Processed :
        LET rows == batch_rows(raw_data[f], f) IN
        \A c \in Range(rows) :
            Count(rows, c) = Count(clean_data[f], c) + Count(audit_log[f], c)

Phase1Steps == { "p1_reset", "p1_batch", "p1_impute" }
Phase1Complete == pc \notin Phase1Steps /\ "p1_batch" \notin Range(failed)

Anomalous(c) ==
    is_physics_fail(c) = T3 \/ is_teleporter(c) = T3 \/ is_stationary(c) = T3

\* C2: once phase 1 is complete no record of the clean partition, the
\* imputed records included, satisfies an anomaly predicate.
C2_CleanPartitionHasNoAnomaly ==
    Phase1Complete =>
        \A f \in DOMAIN clean_data : \A c \in Range(clean_data[f]) : ~Anomalous(c)

ZeroDuration(c) ==
    /\ ~IsNull(c.pickup_time)
    /\ ~IsNull(c.dropoff_time)
    /\ c.pickup_time = c.dropoff_time

\* C3: a zero-duration trip of distance d is treated as travelling at d mph by
\* the classifier (physics_violation iff d > 65 and d > 1) and by the fraud
\* categorizer (Teleporter iff d > 100).
C3_ZeroDurationUsesHourFloor ==
    \A f \in Processed :
        \A c \in Range(batch_rows(raw_data[f], f)) :
            (ZeroDuration(c) /\ ~IsNull(c.trip_distance)) =>
                LET d == Val(c.trip_distance) IN
                /\ is_physics_fail(c) = Bool3(d > 65 /\ d > 1)
                /\ fraud_teleporter(c) = Bool3(d > 100)

\* the 2025 batches of the raw directory process_batch can read
ReadableBatches ==
    { f \in DOMAIN raw_data : Info(f).y = 2025 /\ batch_readable(raw_data[f], f) }
UnreadableBatches ==
    { f \in DOMAIN raw_data : Info(f).y = 2025 /\ ~batch_readable(raw_data[f], f) }

RunEnded == pc = "exit"

\* C4: when a batch cannot be read or processed, only that batch is skipped
\* and reported: at the end of the run every other batch has its clean and
\* its audit output.
C4_BatchFailureIsContained ==
    RunEnded =>
        /\ \A f \in ReadableBatches : f \in DOMAIN clean_data /\ f \in DOMAIN audit_log
        /\ \A f \in UnreadableBatches : f \notin DOMAIN clean_data /\ f \notin DOMAIN audit_log

\* the outputs each aggregation persists
StepOutputs(step) ==
    CASE step = "analyze_revenue" -> { "summary_revenue.csv" }
      [] step = "analyze_fairness" -> { "summary_fairness.csv" }
      [] step = "analyze_fraud" -> { "summary_fraud.csv" }
      [] step = "analyze_suspicious_vendors" -> { "audit_suspicious_vendors.csv" }
      [] step = "audit_leakage" -> { "audit_leakage_stats.csv", "audit_top3_leakage_locs.csv" }
      [] step = "compare_q1_decline" -> { "impact_q1_comparison.csv" }
      [] step = "plot_border_effect" -> { "border_effect.csv", "viz_border_effect.png" }
      [] step = "plot_velocity_heatmaps" ->
            { "viz_velocity_2024.png", "viz_velocity_2025.png", "viz_velocity_heatmap.png" }
      [] step = "plot_crowding_out" -> { "viz_crowding_out.png" }
      [] step = "calculate_elasticity" -> { "weather_elasticity.csv", "viz_rain_elasticity.png" }
      [] OTHER -> { }

Aggregations == FaultPoints \ { "report" }

\* C5: when one aggregation fails, and nothing else does, only its own output
\* is missing at the end of the run: every other aggregation has run and
\* written its output.
C5_AggregationFailureIsContained ==
    (RunEnded /\ fault \in Aggregations /\ failed = << fault >>) =>
        \A step \in Aggregations \ { fault } : StepOutputs(step) \subseteq DOMAIN results

\* C6: a run in which a stage failed never reports the success banner and
\* ends with a failure status.
C6_FailureIsReported ==
    /\ banner => failed = << >>
    /\ (RunEnded /\ failed # << >>) => exit_status = Some(1)

\* C7: the runs of impute_december over the same source batches write the
\* same imputed batch.
C7_ImputationIsReproducible ==
    \A i \in DOMAIN imputed_log : \A j \in DOMAIN imputed_log :
        imputed_log[i] = imputed_log[j]

Unmarked == { f \in DOMAIN raw_data : Info(f).y = 2025 /\ Info(f).prefix \notin {"yellow", "green"} }

\* C9: a batch whose file name has neither dialect marker is rejected: it
\* gets no clean and no audit output, and the batches with a marker are
\* processed all the same.
C9_UnknownDialectIsRejected ==
    /\ \A f \in Unmarked : f \notin DOMAIN clean_data /\ f \notin DOMAIN audit_log
    /\ RunEnded =>
          \A f \in ReadableBatches \ Unmarked :
              f \in DOMAIN clean_data /\ f \in DOMAIN audit_log

StageRank(stage) ==
    CASE stage = "Ingestion" -> 1
      [] stage = "Classification" -> 2
      [] stage = "Imputation" -> 3
      [] stage = "Aggregation" -> 4
      [] stage = "Write" -> 5

\* C8 as stated: the stages run in the order Ingestion, Classification,
\* Imputation, Aggregation, Write, each finished over all of its input before
\* the next begins, so no event of a later stage precedes one of an earlier.
C8_StagesRunOneAfterAnother ==
    \A i \in DOMAIN log : \A j \in DOMAIN log :
        i < j => StageRank(log[i].stage) <= StageRank(log[j].stage)

BatchStages == { "Ingestion", "Classification" }
DerivedStages == { "Aggregation", "Write" }

\* the position of the last Aggregation event before position j (0 when none)
LastAggregationBefore(j) ==
    LET before == { i \in 1..(j - 1) : log[i].stage = "Aggregation" }
    IN  IF before = { } THEN 0 ELSE CHOOSE i \in before : \A k \in before : k <= i

\* C8 as amended: the batches are ingested and classified one at a time in
\* sorted file order; the imputation comes after every batch; no aggregation
\* starts before classification and imputation are over; each aggregation
\* writes its own outputs before the next aggregation starts.
C8_PhasesInOrder ==
    \* batch by batch: Ingestion f, Classification f, in the order of files
    /\ \A i \in DOMAIN log :
          log[i].stage = "Classification" =>
              i > 1 /\ log[i - 1] = Ev("Ingestion", log[i].unit)
    /\ LET ingested == SelectSeq(log, LAMBDA e : e.stage = "Ingestion")
       IN  /\ Len(ingested) <= Len(files)
           /\ \A k \in DOMAIN ingested : ingested[k].unit = files[k]
    \* nothing of phase 1 after the imputation or after an aggregation
    /\ \A i \in DOMAIN log : \A j \in DOMAIN log :
          (i < j /\ log[i].stage \notin BatchStages) => log[j].stage \notin BatchStages
    /\ \A i \in DOMAIN log : \A j \in DOMAIN log :
          (i < j /\ log[i].stage \in DerivedStages) => log[j].stage \in DerivedStages
    \* an aggregation starts only when every batch is classified and the
    \* imputation has been decided
    /\ \A i \in DOMAIN log :
          log[i].stage = "Aggregation" =>
              /\ idx > Len(files)
              /\ \A k \in DOMAIN files : Ev("Classification", files[k]) \in Range(SubSeq(log, 1, i))
              /\ (\E k \in DOMAIN files : Info(files[k]).y = 2025 /\ Info(files[k]).m = 12)
                    \/ Ev("Imputation", ImputedFile) \in Range(SubSeq(log, 1, i))
    \* a table is written by the aggregation that computed it, before the next
    /\ \A j \in DOMAIN log :
          log[j].stage = "Write" =>
              /\ LastAggregationBefore(j) > 0
              /\ log[j].unit \in StepOutputs(log[LastAggregationBefore(j)].unit)

\* a run over two batches and an imputation that reached the banner
C8_Witness ==
    /\ banner
    /\ Len(files) >= 2
    /\ Ev("Imputation", ImputedFile) \in Range(log)
    /\ Ev("Write", "weather_elasticity.csv") \in Range(log)

\* effective speed > 100 mph in integer arithmetic: distance over the trip's
\* duration, a duration of exactly zero counted as one hour
SpeedOver100(c) ==
    /\ ~IsNull(c.trip_distance)
    /\ ~IsNull(c.pickup_time)
    /\ ~IsNull(c.dropoff_time)
    /\ LET d    == Val(c.trip_distance)
           secs == epoch(Val(c.dropoff_time)) - epoch(Val(c.pickup_time))
       IN  IF secs = 0 THEN d > 100
           ELSE IF secs > 0 THEN d * 3600 > 100 * secs
           ELSE d * 3600 < 100 * secs

StationaryCharge(c) ==
    /\ ~IsNull(c.trip_distance)
    /\ ~IsNull(c.congestion_surcharge)
    /\ Val(c.trip_distance) = 0
    /\ Val(c.congestion_surcharge) > 0

\* the count the table gives for a category, 0 when it has no row for it
TableCount(tbl, type) ==
    IF \E i \in DOMAIN tbl : tbl[i].violation_type = type
    THEN (CHOOSE g \in Range(tbl) : g.violation_type = type).violation_count
    ELSE 0

FraudTable == results["summary_fraud.csv"].rows
CleanRecords == read_clean(clean_data)

\* C10: the fraud summary has rows only for 'Teleporter (>100mph)' and
\* 'Stationary Charge', never 'Other'; the Teleporter count is the number of
\* clean records with effective speed > 100 mph, the Stationary Charge count
\* the number of the other clean records with distance 0 and surcharge > 0;
\* a category without records has no row and the rows come by count descending.
C10_FraudSummaryCategories ==
    "summary_fraud.csv" \in DOMAIN results =>
        /\ \A i \in DOMAIN FraudTable :
              FraudTable[i].violation_type \in { "Teleporter (>100mph)", "Stationary Charge" }
        /\ \A i \in DOMAIN FraudTable : \A j \in DOMAIN FraudTable :
              /\ (i # j => FraudTable[i].violation_type # FraudTable[j].violation_type)
              /\ (i < j => FraudTable[i].violation_count >= FraudTable[j].violation_count)
        /\ \A i \in DOMAIN FraudTable : FraudTable[i].violation_count > 0
        /\ TableCount(FraudTable, "Teleporter (>100mph)")
              = CountWhere(CleanRecords, SpeedOver100)
        /\ TableCount(FraudTable, "Stationary Charge")
              = CountWhere(CleanRecords, LAMBDA c : ~SpeedOver100(c) /\ StationaryCharge(c))

\* a record that process_batch wrote to the clean output of its batch (it
\* passed the 65 mph filter) is counted as Teleporter
C10_Witness ==
    /\ "summary_fraud.csv" \in DOMAIN results
    /\ \E i \in DOMAIN FraudTable :
          /\ FraudTable[i].violation_type = "Teleporter (>100mph)"
          /\ FraudTable[i].violation_count >= 1
    /\ \E f \in Processed : \E c \in Range(clean_data[f]) :
          SpeedOver100(c) /\ is_physics_fail(c) = F3

\* the raw directory holds a batch of the target period 2025-12
TargetBatchPresent == \E f \in DOMAIN raw_data : Info(f).y = 2025 /\ Info(f).m = 12

\* C11: when phase 1 has run to its end, the clean partition holds an imputed
\* batch exactly when the raw directory has no batch for 2025-12.
C11_ImputedIffPeriodMissing ==
    Phase1Complete => (ImputedFile \in DOMAIN clean_data <=> ~TargetBatchPresent)

\* record c is a row of a raw batch of December `y` moved `k` calendar years
\* forward, every other field as in the row
FromSource(c, y, k) ==
    \E f \in DOMAIN raw_data :
        /\ Info(f).y = y /\ Info(f).m = 12
        /\ \E r \in Range(raw_data[f].rows) :
              /\ c.pickup_time = plus_years(r.pickup_datetime, k)
              /\ c.dropoff_time = plus_years(r.dropoff_datetime, k)
              /\ c.pickup_loc = r.PULocationID
              /\ c.dropoff_loc = r.DOLocationID
              /\ c.trip_distance = r.trip_distance
              /\ c.fare = r.fare_amount
              /\ c.total_amount = r.total_amount
              /\ c.congestion_surcharge = r.congestion_surcharge

InTargetPeriod(t) == ~IsNull(t) /\ Val(t).y = 2025 /\ Val(t).mo = 12

\* C12: the imputed batch is a run of records of the 2023-12 batches moved
\* 2 years forward followed by a run of records of the 2024-12 batches moved
\* 1 year forward, and the pickup_time of every record lies in December 2025.
C12_ImputedRecordsAreShiftedSamples ==
    ImputedFile \in DOMAIN clean_data =>
        LET batch == clean_data[ImputedFile] IN
        /\ \E n \in 0..Len(batch) :
              /\ \A i \in 1..n : FromSource(batch[i], 2023, 2)
              /\ \A i \in (n + 1)..Len(batch) : FromSource(batch[i], 2024, 1)
        /\ \A i \in DOMAIN batch : InTargetPeriod(batch[i].pickup_time)

\* C13: whatever a consumer reads while a table is rewritten is the complete
\* previous table or the complete new table.
C13_ReaderSeesCompleteTable ==
    \A o \in observed : o.lines \in { o.previous, o.new }

\* C14: whatever tables the results directory holds, each as its aggregation
\* wrote it, ReportGenerator.run ends without a fault and its report has the
\* section of a table only when the table is there.
C14_ReportToleratesMissingTables ==
    /\ "report" \notin Range(failed)
    /\ "audit_report.pdf" \in DOMAIN results =>
          LET sec == results["audit_report.pdf"].rows[1] IN
          /\ sec.revenue => "summary_revenue.csv" \in DOMAIN results
          /\ sec.q1 => "impact_q1_comparison.csv" \in DOMAIN results
          /\ sec.fairness => "summary_fairness.csv" \in DOMAIN results
          /\ sec.leakage => "audit_leakage_stats.csv" \in DOMAIN results
          /\ sec.fraud => "summary_fraud.csv" \in DOMAIN results
          /\ sec.vendors => "audit_suspicious_vendors.csv" \in DOMAIN results
          /\ sec.rain => "weather_elasticity.csv" \in DOMAIN results

\* the raw rows of the six baseline batches, as a set of (file, position) pairs
BaselineTrips ==
    UNION { { << f, i >> : i \in DOMAIN raw_data[f].rows }
            : f \in Range(BaselineNames) \cap DOMAIN raw_data }

InQ1(t, year) == ~IsNull(t) /\ Val(t).y = year /\ Val(t).mo \in {1, 2, 3}
InJanToMarch(t) == ~IsNull(t) /\ Val(t).mo \in {1, 2, 3}

\* drop-offs in zone z that the baseline side and the comparison side count
BaselineDropoffs(z) ==
    Cardinality({ x \in BaselineTrips : raw_data[x[1]].rows[x[2]].DOLocationID = Some(z) })
ComparisonDropoffs(z) ==
    Cardinality({ i \in DOMAIN CleanRecords :
                    CleanRecords[i].dropoff_loc = Some(z) /\ InJanToMarch(CleanRecords[i].pickup_time) })

BorderTable == results["border_effect.csv"].rows

\* C15: the border-effect table has one row for each zone of BorderZone with a
\* counted drop-off in the baseline and in the comparison, and no other row;
\* the baseline count, the divisor of pct_change, is at least 1 in every row.
C15_BorderEffectIsInnerJoin ==
    "border_effect.csv" \in DOMAIN results =>
        /\ { BorderTable[i].ZoneID : i \in DOMAIN BorderTable }
              = { z \in BORDER_ZONES : BaselineDropoffs(z) >= 1 /\ ComparisonDropoffs(z) >= 1 }
        /\ \A i \in DOMAIN BorderTable : \A j \in DOMAIN BorderTable :
              i # j => BorderTable[i].ZoneID # BorderTable[j].ZoneID
        /\ \A i \in DOMAIN BorderTable :
              LET z == BorderTable[i].ZoneID IN
              /\ BaselineDropoffs(z) >= 1
              /\ RatEq(BorderTable[i].pct_change,
                       Rat((ComparisonDropoffs(z) - BaselineDropoffs(z)) * 100, BaselineDropoffs(z)))

\* baseline zones {A, B, C}, comparison zones {B, C, D}: the table has B and C
C15_Witness ==
    /\ "border_effect.csv" \in DOMAIN results
    /\ { z \in BORDER_ZONES : BaselineDropoffs(z) >= 1 } = { ZoneBorderA, ZoneInside, ZoneBorderC }
    /\ { z \in BORDER_ZONES : ComparisonDropoffs(z) >= 1 } = { ZoneInside, ZoneBorderC, ZoneBorderD }
    /\ { BorderTable[i].ZoneID : i \in DOMAIN BorderTable } = { ZoneInside, ZoneBorderC }

Q1Table == results["impact_q1_comparison.csv"].rows

\* C16: the baseline count is the number of baseline trips dropped off in the
\* congestion zone and picked up in January to March 2024, the comparison
\* count the number of clean records dropped off there and picked up in
\* January to March 2025.
C16_SameWindowOnBothSides ==
    "impact_q1_comparison.csv" \in DOMAIN results =>
        /\ Q1Table[1].trip_count =
              Cardinality({ x \in BaselineTrips :
                  LET r == raw_data[x[1]].rows[x[2]] IN
                  /\ ~IsNull(r.DOLocationID) /\ Val(r.DOLocationID) \in CONGESTION_ZONE_IDS
                  /\ InQ1(r.pickup_datetime, 2024) })
        /\ Q1Table[2].trip_count =
              Cardinality({ i \in DOMAIN CleanRecords :
                  LET c == CleanRecords[i] IN
                  /\ ~IsNull(c.dropoff_loc) /\ Val(c.dropoff_loc) \in CONGESTION_ZONE_IDS
                  /\ InQ1(c.pickup_time, 2025) })

\* the clean record with a null surcharge replaced by 0
ZeroSurcharge(c) ==
    IF IsNull(c.congestion_surcharge) THEN [c EXCEPT !.congestion_surcharge = Some(0)] ELSE c

CleanRecordsZeroed == MapSeq(CleanRecords, ZeroSurcharge)

\* equal as numbers, a sum over nothing counting as 0
SameAmount(x, y) ==
    LET a == IF IsNull(x) THEN RatInt(0) ELSE Val(x)
        b == IF IsNull(y) THEN RatInt(0) ELSE Val(y)
    IN  RatEq(a, b)

SameNumber(x, y) == (IsNull(x) /\ IsNull(y)) \/ (~IsNull(x) /\ ~IsNull(y) /\ RatEq(Val(x), Val(y)))

\* C17: every table computed from congestion_surcharge is the table the same
\* clean partition gives with each null surcharge replaced by 0.
C17_NullSurchargeCountsAsZero ==
    /\ "summary_revenue.csv" \in DOMAIN results =>
          SameAmount(Num(results["summary_revenue.csv"].rows[1].total_surcharge),
                     Num(revenue_table(CleanRecordsZeroed)[1].total_surcharge))
    /\ "summary_fraud.csv" \in DOMAIN results =>
          Range(FraudTable) = fraud_groups(CleanRecordsZeroed)
    /\ "audit_leakage_stats.csv" \in DOMAIN results =>
          LET got  == results["audit_leakage_stats.csv"].rows[1]
              zero == leakage_stats(CleanRecordsZeroed)[1]
          IN  /\ got.compliant_trips = zero.compliant_trips
              /\ SameNumber(got.compliance_rate_pct, zero.compliance_rate_pct)
              /\ SameNumber(got.estimated_revenue_loss, zero.estimated_revenue_loss)
    /\ "audit_top3_leakage_locs.csv" \in DOMAIN results =>
          Range(results["audit_top3_leakage_locs.csv"].rows) \subseteq leaky_groups(CleanRecordsZeroed)
    /\ "viz_crowding_out.png" \in DOMAIN results =>
          LET got  == results["viz_crowding_out.png"].rows
              zero == crowding_table(CleanRecordsZeroed)
          IN  /\ Len(got) = Len(zero)
              /\ \A i \in DOMAIN got :
                    /\ SameNumber(got[i].avg_surcharge, zero[i].avg_surcharge)
                    /\ SameNumber(got[i].avg_tip_pct, zero[i].avg_tip_pct)
    /\ "summary_fairness.csv" \in DOMAIN results =>
          SameNumber(results["summary_fairness.csv"].rows[1].avg_tip_percent,
                     fairness_table(CleanRecordsZeroed)[1].avg_tip_percent)

FairnessTable == results["summary_fairness.csv"].rows

\* C18: short_trip_count is the number of clean records with trip_distance < 2
\* and a dropoff zone of the congestion zone (no such record: 0 or empty), and
\* avg_tip_percent is empty when no clean record has fare > 0.
C18_ShortTripsCountEveryCleanRecord ==
    "summary_fairness.csv" \in DOMAIN results =>
        /\ (IF IsNull(FairnessTable[1].short_trip_count) THEN 0
            ELSE Val(FairnessTable[1].short_trip_count))
              = Cardinality({ i \in DOMAIN CleanRecords :
                    LET c == CleanRecords[i] IN
                    /\ ~IsNull(c.trip_distance) /\ Val(c.trip_distance) < 2
                    /\ ~IsNull(c.dropoff_loc) /\ Val(c.dropoff_loc) \in CONGESTION_ZONE_IDS })
        /\ (\A i \in DOMAIN CleanRecords :
                IsNull(CleanRecords[i].fare) \/ Val(CleanRecords[i].fare) <= 0)
              => IsNull(FairnessTable[1].avg_tip_percent)

\* the eligible trips of the leakage audit, by position in the clean partition
EligibleTrips ==
    { i \in DOMAIN CleanRecords :
        LET c == CleanRecords[i] IN
        /\ ~IsNull(c.pickup_time) /\ epoch(Val(c.pickup_time)) >= epoch(Ts(2025, 1, 4 * 86400))
        /\ ~IsNull(c.pickup_loc) /\ Val(c.pickup_loc) \notin CONGESTION_ZONE_IDS
        /\ ~IsNull(c.dropoff_loc) /\ Val(c.dropoff_loc) \in CONGESTION_ZONE_IDS }

CompliantTrips ==
    { i \in EligibleTrips : ~IsNull(CleanRecords[i].congestion_surcharge)
                            /\ Val(CleanRecords[i].congestion_surcharge) > 0 }

LeakageStats == results["audit_leakage_stats.csv"].rows[1]

\* C19: the leakage audit reports compliance_rate_pct = 100 * compliant /
\* eligible (for at least one eligible trip) and estimated_revenue_loss =
\* (eligible - compliant) * 2.75.
C19_LeakageNumbers ==
    "audit_leakage_stats.csv" \in DOMAIN results =>
        LET e == Cardinality(EligibleTrips)
            k == Cardinality(CompliantTrips)
        IN  /\ e > 0 => SameNumber(LeakageStats.compliance_rate_pct, Some(Rat(100 * k, e)))
            /\ SameNumber(LeakageStats.estimated_revenue_loss, Some(Rat((e - k) * 275, 100)))

OnlyOwnOutputs ==
    /\ raw_data' = raw_data
    /\ clean_data' = clean_data
    /\ audit_log' = audit_log
    /\ DOMAIN results \subseteq DOMAIN results'
    /\ \A t \in DOMAIN results' :
          (t \notin DOMAIN results \/ results'[t] # results[t]) => t \in StepOutputs(pc)

\* C21: a step of an aggregation stage leaves the raw directory, the clean
\* partition and the audit partition as they are, removes nothing from the
\* results directory and writes there only the outputs of that aggregation.
C21_AggregationsOnlyWriteOwnOutputs == [][(pc \in Aggregations) => OnlyOwnOutputs]_vars

\* in the second run over a directory with clean and audit records, an
\* aggregation has rewritten its table beside the tables of the first run
C21_Witness ==
    /\ run = 2
    /\ "summary_revenue.csv" \in DOMAIN results
    /\ results["summary_revenue.csv"].run = 2
    /\ "summary_fairness.csv" \in DOMAIN results
    /\ results["summary_fairness.csv"].run = 1
    /\ \E f \in DOMAIN clean_data : clean_data[f] # << >>
    /\ \E f \in DOMAIN raw_data : raw_data[f].rows # << >>

LeakyTable == results["audit_top3_leakage_locs.csv"].rows

\* the eligible trips picked up in zone z
EligibleFrom(z) == { i \in EligibleTrips : CleanRecords[i].pickup_loc = z }

\* C22: every row of the top-leaky-origins table has more than 50 trips, and
\* its missed-surcharge count is its trip count minus the number of the zone's
\* eligible trips the leakage audit counts as compliant (surcharge > 0).
C22_MissedIsTotalMinusCompliant ==
    "audit_top3_leakage_locs.csv" \in DOMAIN results =>
        \A k \in DOMAIN LeakyTable :
            LET row == LeakyTable[k] IN
            /\ row.total_trips > LeakyMinTrips
            /\ row.total_trips = Cardinality(EligibleFrom(row.pickup_loc))
            /\ row.missed_surcharges =
                 row.total_trips - Cardinality(EligibleFrom(row.pickup_loc) \cap CompliantTrips)

\* the part of C22 the two queries agree on: a row has more than 50 trips, all
\* the eligible trips of its zone, and counts as missed those of them without
\* a surcharge or with a surcharge of zero
C22_RowsOverFiftyTrips ==
    "audit_top3_leakage_locs.csv" \in DOMAIN results =>
        \A k \in DOMAIN LeakyTable :
            LET row == LeakyTable[k] IN
            /\ row.total_trips > LeakyMinTrips
            /\ row.total_trips = Cardinality(EligibleFrom(row.pickup_loc))
            /\ row.missed_surcharges =
                 Cardinality({ i \in EligibleFrom(row.pickup_loc) :
                                 \/ IsNull(CleanRecords[i].congestion_surcharge)
                                 \/ Val(CleanRecords[i].congestion_surcharge) = 0 })

\* C23: when a run has ended, every table of the results directory that the
\* report generator reads was written by that run: none is left from an
\* earlier run, also when an aggregation of this run failed or was skipped.
C23_NoTableOfAnEarlierRun ==
    RunEnded => \A t \in ReportTables \cap DOMAIN results : results[t].run = run

====
